---- MODULE Spec2Model ----
(***************************************************************************)
(* Model of sync_keep_bring.py: one-shot reconciliation of a Google Keep   *)
(* checklist with a Bring! shopping list.  main() logs into both services, *)
(* fetches both lists and hands them to sync_lists(), which runs the       *)
(* Keep->Bring pass and then the Bring->Keep pass as sync_mode selects.    *)
(*                                                                         *)
(* A label is a sequence of one-character strings, so that strip(),        *)
(* lower() and isalnum() are computed character by character as the code   *)
(* computes them.                                                          *)
(***************************************************************************)
EXTENDS Naturals, Sequences, FiniteSets

VARIABLES
    keepRemote,     \* the Keep checklist on the server: sequence of [text, checked]
    bringRemote,    \* the Bring 'purchase' list on the server: sequence of names
    hasUuid,        \* whether the selected Bring list carries a listUuid
    sync_mode,      \* SYNC_MODE of the run
    pc,             \* position of main()/sync_lists()
    run,            \* "first" or "second" invocation of the program
    start,          \* the two lists as they were when this invocation started
    prev,           \* what the first invocation did: [complete, creates, failures]
    keep_list,      \* result of get_keep_list: [found, items], the local list object
    bring_items,    \* result of get_bring_list: [found, listUuid, hasPurchase, purchase]
    normalized_keep_items_dict,   \* insertion-ordered dict: sequence of [key, idx]
    normalized_bring_item_names,  \* set of normalized keys
    i,              \* index of the loop of the current pass
    items_added,    \* counter of the current pass
    summary,        \* the summary lines logged so far: sequence of [pass, processed, added]
    io              \* the calls made to the two services so far, in order

vars == << keepRemote, bringRemote, hasUuid, sync_mode, pc, run, start, prev,
           keep_list, bring_items, normalized_keep_items_dict,
           normalized_bring_item_names, i, items_added, summary, io >>

(***************************************************************************)
(* Bounds of the model.                                                    *)
(***************************************************************************)
\* the two lists hold at most MaxItems items together when the program starts
MaxItems == 3

\* what get_keep_list and get_bring_list return when they fail
NoKeepList == [found |-> FALSE, items |-> <<>>]
NoBringItems == [found |-> FALSE, listUuid |-> FALSE, hasPurchase |-> FALSE,
                 purchase |-> <<>>]

(***************************************************************************)
(* Characters and labels.                                                  *)
(***************************************************************************)
Space == " "
Alnum == {"M", "B", "m", "b", "i", "l", "k", "r", "e", "a", "d", "1"}

Milk == <<"M", "i", "l", "k">>
milkBang == <<"m", "i", "l", "k", "!">>
Bread == <<"B", "r", "e", "a", "d", " ">>
Bang == <<"!">>

Labels == {Milk, milkBang, Bread, Bang}

\* str.lower() on one character
LowerCharIdentity(c) == c
LowerChar(c) ==
    IF c = "M" THEN "m" ELSE IF c = "B" THEN "b" ELSE c

\* str.lower()
Lower(s) == [n \in 1..Len(s) |-> LowerChar(s[n])]

RECURSIVE LStrip(_)
LStrip(s) ==
    IF s # <<>> /\ Head(s) = Space THEN LStrip(Tail(s)) ELSE s

RECURSIVE RStrip(_)
RStrip(s) ==
    IF s # <<>> /\ s[Len(s)] = Space THEN RStrip(SubSeq(s, 1, Len(s) - 1)) ELSE s

\* str.strip()
Strip(s) == RStrip(LStrip(s))

\* ''.join(char for char in s if char.isalnum())
RECURSIVE AlnumOnly(_)
AlnumOnly(s) ==
    IF s = <<>> THEN <<>>
    ELSE IF Head(s) \in Alnum THEN <<Head(s)>> \o AlnumOnly(Tail(s))
    ELSE AlnumOnly(Tail(s))

\* the normalized key of a label
Normalize(s) == AlnumOnly(Lower(Strip(s)))

(***************************************************************************)
(* The two key collections sync_lists builds from the snapshots.           *)
(***************************************************************************)
\* position of key k in the dict d, 0 when absent
RECURSIVE DictPos(_, _, _)
DictPos(d, k, n) ==
    IF n > Len(d) THEN 0
    ELSE IF d[n].key = k THEN n
    ELSE DictPos(d, k, n + 1)

DictHas(d, k) == DictPos(d, k, 1) # 0

\* d[k] = idx of a Python dict: a new key goes to the end, an existing key
\* keeps its position and takes the new value
DictPut(d, k, idx) ==
    IF DictHas(d, k)
    THEN [d EXCEPT ![DictPos(d, k, 1)] = [key |-> k, idx |-> idx]]
    ELSE Append(d, [key |-> k, idx |-> idx])

RECURSIVE KeepDictFromNoLower(_, _, _)
KeepDictFromNoLower(items, n, d) ==
    IF n > Len(items) THEN d
    ELSE IF items[n].text # <<>>
    THEN KeepDictFromNoLower(items, n + 1, DictPut(d, AlnumOnly(Strip(items[n].text)), n))
    ELSE KeepDictFromNoLower(items, n + 1, d)

\* lines 93-96: the dict comprehension over keep_list.all(), in list order
RECURSIVE KeepDictFrom(_, _, _)
KeepDictFrom(items, n, d) ==
    IF n > Len(items) THEN d
    ELSE IF items[n].text # <<>>
    THEN KeepDictFrom(items, n + 1, DictPut(d, Normalize(items[n].text), n))
    ELSE KeepDictFrom(items, n + 1, d)

KeepDict(items) == KeepDictFrom(items, 1, <<>>)

BringNames(purchase) ==
    { Normalize(purchase[n]) : n \in { m \in 1..Len(purchase) : purchase[m] # <<>> } }

(***************************************************************************)
(* Initial states: any Keep checklist and any Bring purchase list within   *)
(* the bound, any sync mode, before the first login.                       *)
(***************************************************************************)
KeepItems == [text : Labels, checked : BOOLEAN]

SeqsUpTo(S, n) == UNION { [1..m -> S] : m \in 0..n }

\* int(os.environ.get('SYNC_MODE', 0)): 0 both, 1 Bring->Keep, 2 Keep->Bring,
\* 3 stands for every other value
Modes == {0, 1, 2, 3}

Init ==
    /\ keepRemote \in SeqsUpTo(KeepItems, MaxItems)
    /\ bringRemote \in SeqsUpTo(Labels, MaxItems - Len(keepRemote))
    /\ hasUuid \in BOOLEAN
    /\ sync_mode \in Modes
    /\ pc = "keep_auth"
    /\ run = "first"
    /\ start = [keep |-> keepRemote, bring |-> bringRemote]
    /\ prev = [complete |-> FALSE, creates |-> 0, failures |-> 0]
    /\ keep_list = NoKeepList
    /\ bring_items = NoBringItems
    /\ normalized_keep_items_dict = <<>>
    /\ normalized_bring_item_names = {}
    /\ i = 1
    /\ items_added = 0
    /\ summary = <<>>
    /\ io = <<>>

\* one call to a service: ok is FALSE when the call raised
Call(op, label, idx, ok) == [op |-> op, label |-> label, idx |-> idx, ok |-> ok]

inputs == << keepRemote, bringRemote, hasUuid, sync_mode, run, start, prev >>
locals == << normalized_keep_items_dict, normalized_bring_item_names, i, items_added, summary >>

(***************************************************************************)
(* main()                                                                  *)
(***************************************************************************)
\* the except branches of lines 182-184 and 192-194 return from main()
AfterLoginContinues(ok, next) == next
AfterLogin(ok, next) == IF ok THEN next ELSE "aborted"

KeepAuthenticate ==
    /\ pc = "keep_auth"
    /\ \E ok \in BOOLEAN :
        /\ io' = Append(io, Call("keep.authenticate", <<>>, 0, ok))
        /\ pc' = AfterLogin(ok, "bring_auth")
    /\ UNCHANGED << inputs, locals, keep_list, bring_items >>

BringLogin ==
    /\ pc = "bring_auth"
    /\ \E ok \in BOOLEAN :
        /\ io' = Append(io, Call("bring.login", <<>>, 0, ok))
        /\ pc' = AfterLogin(ok, "get_keep")
    /\ UNCHANGED << inputs, locals, keep_list, bring_items >>

\* get_keep_list: the list, or None when sync/get raise, the note is missing
\* or it is no List
GetKeepList ==
    /\ pc = "get_keep"
    /\ \E ok \in BOOLEAN :
        /\ io' = Append(io, Call("get_keep_list", <<>>, 0, ok))
        /\ keep_list' = IF ok THEN [found |-> TRUE, items |-> keepRemote] ELSE NoKeepList
    /\ pc' = "get_bring"
    /\ UNCHANGED << inputs, locals, bring_items >>

\* line 199: if keep_list and bring_items
CanSyncBringOnly(kl, bi) == bi.found
CanSync(kl, bi) == kl.found /\ bi.found

\* what bring.getItems can answer, as lines 58-67 tell the answers apart:
\* a dict with the key 'purchase' (to which a non-empty list comes down,
\* line 66), a dict without that key, and a falsy non-dict such as None
Responses == {"dict", "dict_without_purchase", "nothing"}

\* lines 58-67: a dict is returned as it is with the list id added, whatever
\* its keys; anything else is wrapped as 'purchase', a falsy one as []
Snapshot(response, listUuid, list) ==
    [found |-> TRUE,
     listUuid |-> listUuid,
     hasPurchase |-> response # "dict_without_purchase",
     purchase |-> IF response = "dict" THEN list ELSE <<>>]

\* get_bring_list: the items with the list id, or None when a call raises or
\* no list is found; then line 199 decides whether sync_lists runs.  What
\* sync_lists sees of the list is what the answer of getItems lets it see.
GetBringList ==
    /\ pc = "get_bring"
    /\ \/ /\ io' = Append(io, Call("get_bring_list", <<>>, 0, FALSE))
          /\ bring_items' = NoBringItems
       \/ \E response \in Responses :
          /\ io' = Append(io, Call("get_bring_list", <<>>, 0, TRUE))
          /\ bring_items' = Snapshot(response, hasUuid, bringRemote)
    /\ pc' = IF CanSync(keep_list, bring_items') THEN "sync_lists" ELSE "aborted"
    /\ UNCHANGED << inputs, locals, keep_list >>

(***************************************************************************)
(* sync_lists()                                                            *)
(***************************************************************************)
\* the order of the blocks of sync_lists: lines 90-106, 108-137, 139-162, 163
NextPassSwapped(p) ==
    IF p = "sync_lists" THEN "bring_to_keep"
    ELSE IF p = "bring_to_keep" THEN "keep_to_bring"
    ELSE "complete"
NextPass(p) ==
    IF p = "sync_lists" THEN "keep_to_bring"
    ELSE IF p = "keep_to_bring" THEN "bring_to_keep"
    ELSE "complete"

\* lines 90-106: the two key collections are built once, from the snapshots
SyncStart ==
    /\ pc = "sync_lists"
    /\ normalized_keep_items_dict' = KeepDict(keep_list.items)
    /\ normalized_bring_item_names' = BringNames(bring_items.purchase)
    /\ pc' = NextPass(pc)
    /\ i' = 1
    /\ items_added' = 0
    /\ UNCHANGED << inputs, keep_list, bring_items, summary, io >>

\* lines 110-113
KeepToBringEnabledWithoutListId == sync_mode \in {0, 2}
KeepToBringEnabledInEveryMode == bring_items.listUuid
KeepToBringEnabled == sync_mode \in {0, 2} /\ bring_items.listUuid

\* the condition of line 126 for the dict entry e
ShouldAddToBringBlankToo(e) ==
    /\ ~ keep_list.items[e.idx].checked
    /\ e.key \notin normalized_bring_item_names
ShouldAddToBringIgnoringChecked(e) ==
    /\ e.key # <<>>
    /\ e.key \notin normalized_bring_item_names
ShouldAddToBring(e) ==
    /\ e.key # <<>>
    /\ ~ keep_list.items[e.idx].checked
    /\ e.key \notin normalized_bring_item_names

\* lines 131-132 and 158-159: the except branch logs a warning and the loop
\* goes on with the next item
AfterCreateBreaking(idx, ok, len) == IF ok THEN idx + 1 ELSE len + 1
AfterCreate(idx, ok, len) == idx + 1

\* bring_client.saveItem(bring_list_id, name) as the library documents it:
\* an item of that name is put on the purchase list
SaveItem(purchase, name) == Append(purchase, name)

\* lines 126-132: the Keep item that was sent is only read; the loop does
\* not check it off, rename it or delete it
KeepItemCheckedOff(item) == [item EXCEPT !.checked = TRUE]
KeepItemAfterSave(item) == item

\* one iteration of the loop of lines 118-132
KeepToBringStep ==
    /\ pc = "keep_to_bring"
    /\ KeepToBringEnabled
    /\ i <= Len(normalized_keep_items_dict)
    /\ LET e == normalized_keep_items_dict[i]
           name == Strip(keep_list.items[e.idx].text)
       IN  \/ /\ ShouldAddToBring(e)
              /\ \E ok \in BOOLEAN :
                  /\ io' = Append(io, Call("saveItem", name, e.idx, ok))
                  /\ bringRemote' = IF ok THEN SaveItem(bringRemote, name) ELSE bringRemote
                  /\ items_added' = IF ok THEN items_added + 1 ELSE items_added
                  /\ keep_list' = IF ok
                                  THEN [keep_list EXCEPT !.items[e.idx] = KeepItemAfterSave(@)]
                                  ELSE keep_list
                  /\ i' = AfterCreate(i, ok, Len(normalized_keep_items_dict))
           \/ /\ ~ ShouldAddToBring(e)
              /\ i' = i + 1
              /\ UNCHANGED << io, bringRemote, items_added, keep_list >>
    /\ UNCHANGED << keepRemote, hasUuid, sync_mode, run, start, prev, pc,
                    bring_items, normalized_keep_items_dict,
                    normalized_bring_item_names, summary >>

\* line 133: the loop is over, the pass logs its summary
KeepToBringDone ==
    /\ pc = "keep_to_bring"
    /\ KeepToBringEnabled
    /\ i > Len(normalized_keep_items_dict)
    /\ summary' = Append(summary, [pass |-> "Keep->Bring",
                                   processed |-> Len(normalized_keep_items_dict),
                                   added |-> items_added])
    /\ pc' = NextPass(pc)
    /\ i' = 1
    /\ items_added' = 0
    /\ UNCHANGED << inputs, keep_list, bring_items, normalized_keep_items_dict,
                    normalized_bring_item_names, io >>

\* lines 134-137: the pass is disabled by the mode, or there is no list id
KeepToBringSkip ==
    /\ pc = "keep_to_bring"
    /\ ~ KeepToBringEnabled
    /\ pc' = NextPass(pc)
    /\ i' = 1
    /\ items_added' = 0
    /\ UNCHANGED << inputs, keep_list, bring_items, normalized_keep_items_dict,
                    normalized_bring_item_names, summary, io >>

\* line 140: sync_mode in [0, 1] and bring_items and 'purchase' in bring_items
BringToKeepEnabled ==
    sync_mode \in {0, 1} /\ bring_items.found /\ bring_items.hasPurchase

\* lines 147-148: item_spec and normalized_spec of the Bring item named name
ItemSpec(name) == Strip(name)
NormalizedSpec(name) == AlnumOnly(Lower(ItemSpec(name)))

\* the condition of line 152 for the Bring item named name
ShouldAddToKeep(name) ==
    /\ ItemSpec(name) # <<>>
    /\ NormalizedSpec(name) # <<>>
    /\ ~ DictHas(normalized_keep_items_dict, NormalizedSpec(name))

\* keep_list.add(text) as the library documents it: a new unchecked item on
\* the list
KeepListAdd(list, text) == Append(list, [text |-> text, checked |-> FALSE])

\* what the two calls of lines 154-155 can do: both return, add raises, or
\* add returns and sync raises
AddOutcomes == {"ok", "add_raised", "sync_raised"}

\* line 145: the pass iterates the purchase list of the snapshot it was given
BringPurchaseRefetched == bringRemote
BringPurchase == bring_items.purchase

\* one iteration of the loop of lines 145-161
BringToKeepStep ==
    /\ pc = "bring_to_keep"
    /\ BringToKeepEnabled
    /\ i <= Len(BringPurchase)
    /\ LET item_spec == Strip(BringPurchase[i])
       IN  \/ /\ ShouldAddToKeep(BringPurchase[i])
              /\ \E outcome \in AddOutcomes :
                  /\ io' = Append(io, Call("keep_list.add", item_spec, i, outcome = "ok"))
                  /\ keep_list' = IF outcome = "add_raised" THEN keep_list
                                  ELSE [keep_list EXCEPT !.items = KeepListAdd(@, item_spec)]
                  \* keep_client.sync() pushes the local list to the server
                  /\ keepRemote' = IF outcome = "ok" THEN KeepListAdd(keep_list.items, item_spec)
                                   ELSE keepRemote
                  /\ items_added' = IF outcome = "ok" THEN items_added + 1 ELSE items_added
                  /\ i' = AfterCreate(i, outcome = "ok", Len(BringPurchase))
           \/ /\ ~ ShouldAddToKeep(BringPurchase[i])
              /\ i' = i + 1
              /\ UNCHANGED << io, keep_list, keepRemote, items_added >>
    /\ UNCHANGED << bringRemote, hasUuid, sync_mode, run, start, prev, pc, bring_items,
                    normalized_keep_items_dict, normalized_bring_item_names, summary >>

\* line 162: the loop is over, the pass logs its summary
BringToKeepDone ==
    /\ pc = "bring_to_keep"
    /\ BringToKeepEnabled
    /\ i > Len(BringPurchase)
    /\ summary' = Append(summary, [pass |-> "Bring->Keep",
                                   processed |-> Len(BringPurchase),
                                   added |-> items_added])
    /\ pc' = NextPass(pc)
    /\ i' = 1
    /\ items_added' = 0
    /\ UNCHANGED << inputs, keep_list, bring_items, normalized_keep_items_dict,
                    normalized_bring_item_names, io >>

\* line 140 is false: no Bring->Keep pass
BringToKeepSkip ==
    /\ pc = "bring_to_keep"
    /\ ~ BringToKeepEnabled
    /\ pc' = NextPass(pc)
    /\ i' = 1
    /\ items_added' = 0
    /\ UNCHANGED << inputs, keep_list, bring_items, normalized_keep_items_dict,
                    normalized_bring_item_names, summary, io >>

(***************************************************************************)
(* The calls of a run, read off io.                                        *)
(***************************************************************************)
IsCreate(c) == c.op \in {"saveItem", "keep_list.add"}

Creates(log) == SelectSeq(log, IsCreate)

Failures(log) == SelectSeq(log, LAMBDA c : IsCreate(c) /\ ~ c.ok)

(***************************************************************************)
(* The program is started again on the lists the first invocation left.    *)
(* An invocation that follows an aborted one finds the lists untouched and *)
(* behaves as a first invocation, so only a completed one is followed up.  *)
(***************************************************************************)
Rerun ==
    /\ pc = "complete"
    /\ run = "first"
    /\ run' = "second"
    /\ start' = [keep |-> keepRemote, bring |-> bringRemote]
    /\ prev' = [complete |-> (pc = "complete"), creates |-> Len(Creates(io)),
                failures |-> Len(Failures(io))]
    /\ pc' = "keep_auth"
    /\ keep_list' = NoKeepList
    /\ bring_items' = NoBringItems
    /\ normalized_keep_items_dict' = <<>>
    /\ normalized_bring_item_names' = {}
    /\ i' = 1
    /\ items_added' = 0
    /\ summary' = <<>>
    /\ io' = <<>>
    /\ UNCHANGED << keepRemote, bringRemote, hasUuid, sync_mode >>

Next ==
    \/ KeepAuthenticate
    \/ BringLogin
    \/ GetKeepList
    \/ GetBringList
    \/ SyncStart
    \/ KeepToBringStep
    \/ KeepToBringDone
    \/ KeepToBringSkip
    \/ BringToKeepStep
    \/ BringToKeepDone
    \/ BringToKeepSkip
    \/ Rerun

Spec == Init /\ [][Next]_vars

(***************************************************************************)
(* Vocabulary of the properties.                                           *)
(***************************************************************************)
KeysOfKeep(list) == { Normalize(list[n].text) : n \in 1..Len(list) }
KeysOfBring(list) == { Normalize(list[n]) : n \in 1..Len(list) }

CallsOf(op) == { n \in 1..Len(io) : io[n].op = op }
PassLogged(pass) == \E n \in 1..Len(summary) : summary[n].pass = pass

\* the Bring snapshot of the run: the purchase items sync_lists reads from
\* bring_items (line 102), read-only once fetched
BringSnapshot == bring_items.purchase

\* Keep items that are unchecked, have a key, and whose key is not on Bring
MissingOnBringOf(bring) == { n \in 1..Len(start.keep) :
    /\ ~ start.keep[n].checked
    /\ Normalize(start.keep[n].text) # <<>>
    /\ Normalize(start.keep[n].text) \notin KeysOfBring(bring) }

MissingOnBring == MissingOnBringOf(BringSnapshot)

\* Bring items that have a key which is not on Keep
MissingOnKeepOf(bring) == { n \in 1..Len(bring) :
    /\ Normalize(bring[n]) # <<>>
    /\ Normalize(bring[n]) \notin KeysOfKeep(start.keep) }

MissingOnKeep == MissingOnKeepOf(BringSnapshot)

(***************************************************************************)
(* C1: every saveItem call of the Keep->Bring pass is made for a Keep item *)
(* that is unchecked and carries that item's stripped text, so a key all   *)
(* of whose Keep items are checked is never created on Bring.              *)
(***************************************************************************)
C1_OnlyActiveKeepItemsCreated ==
    \A n \in CallsOf("saveItem") :
        /\ io[n].idx \in 1..Len(start.keep)
        /\ ~ start.keep[io[n].idx].checked
        /\ io[n].label = Strip(start.keep[io[n].idx].text)
        /\ \E m \in 1..Len(start.keep) :
            /\ Normalize(start.keep[m].text) = Normalize(io[n].label)
            /\ ~ start.keep[m].checked

\* the pass is over, it created something, and it left out a checked item
\* whose key is not on Bring
C1_Witness ==
    /\ PassLogged("Keep->Bring")
    /\ CallsOf("saveItem") # {}
    /\ \E n \in 1..Len(start.keep) :
        /\ start.keep[n].checked
        /\ Normalize(start.keep[n].text) # <<>>
        /\ Normalize(start.keep[n].text) \notin KeysOfBring(BringSnapshot)
        /\ \A c \in CallsOf("saveItem") :
            Normalize(io[c].label) # Normalize(start.keep[n].text)

(***************************************************************************)
(* C2: in both directions no create call is made for a key that some item  *)
(* of the destination list had when the run started, whether that          *)
(* destination item is checked or not.                                     *)
(***************************************************************************)
C2_PresentKeyNeverCreated ==
    /\ \A n \in CallsOf("saveItem") :
        Normalize(io[n].label) \notin KeysOfBring(start.bring)
    /\ \A n \in CallsOf("keep_list.add") :
        Normalize(io[n].label) \notin KeysOfKeep(start.keep)

(***************************************************************************)
(* C3: within one run and one direction, no two create calls are made for  *)
(* the same normalized key.                                                *)
(***************************************************************************)
C3_OneCreatePerKey ==
    \A a, b \in 1..Len(io) :
        (a < b /\ IsCreate(io[a]) /\ io[a].op = io[b].op)
            => Normalize(io[a].label) # Normalize(io[b].label)

(***************************************************************************)
(* C4: in each direction the create calls follow the order of the source   *)
(* list: a call made for an earlier source item comes before a call made   *)
(* for a later one.                                                        *)
(***************************************************************************)
\* the labels of the source list of a pass, as a create call carries them
SourceLabels(op) ==
    IF op = "saveItem" THEN [n \in 1..Len(start.keep) |-> Strip(start.keep[n].text)]
    ELSE [n \in 1..Len(BringSnapshot) |-> Strip(BringSnapshot[n])]

\* the calls from the c-th on can be matched, in their order, to source
\* items of the same label at increasing positions from position from on
RECURSIVE InSourceOrder(_, _, _, _)
InSourceOrder(calls, labels, c, from) ==
    IF c > Len(calls) THEN TRUE
    ELSE \E q \in from..Len(labels) :
            /\ labels[q] = calls[c].label
            /\ InSourceOrder(calls, labels, c + 1, q + 1)

C4_CreatesInSourceOrder ==
    \A op \in {"saveItem", "keep_list.add"} :
        InSourceOrder(SelectSeq(io, LAMBDA c : c.op = op), SourceLabels(op), 1, 1)

(***************************************************************************)
(* C5: a failing create call does not stop its pass: when a pass logs its  *)
(* summary every candidate of the pass has had its create call, and the    *)
(* added count of the summary is the number of create calls that returned. *)
(***************************************************************************)
\* the candidates of the Keep->Bring pass: the keys missing on Bring whose
\* last Keep item is unchecked
KeepToBringCandidates == { n \in MissingOnBring :
    \A m \in 1..Len(start.keep) :
        Normalize(start.keep[m].text) = Normalize(start.keep[n].text) => m <= n }

OpOfPass(pass) == IF pass = "Keep->Bring" THEN "saveItem" ELSE "keep_list.add"

C5_FailureDoesNotStopPass ==
    \A n \in 1..Len(summary) :
        /\ summary[n].added =
              Cardinality({ c \in CallsOf(OpOfPass(summary[n].pass)) : io[c].ok })
        /\ { io[c].idx : c \in CallsOf(OpOfPass(summary[n].pass)) } =
              IF summary[n].pass = "Keep->Bring" THEN KeepToBringCandidates
              ELSE MissingOnKeep

\* a pass of three candidates whose second create call failed: three
\* attempts, two added
C5_Witness ==
    \E n \in 1..Len(summary) :
        LET calls == SelectSeq(io, LAMBDA c : c.op = OpOfPass(summary[n].pass))
        IN  /\ Len(calls) = 3
            /\ calls[1].ok /\ ~ calls[2].ok /\ calls[3].ok
            /\ summary[n].added = 2

(***************************************************************************)
(* C6: idempotence.  When the first invocation reached "Sync complete."    *)
(* with no create call failing, the second invocation, in the same mode    *)
(* and on the lists the first one left, makes no create call.              *)
(***************************************************************************)
C6_SecondRunCreatesNothing ==
    (run = "second" /\ prev.complete /\ prev.failures = 0) => Creates(io) = <<>>

(***************************************************************************)
(* C7: a run only creates.  The only calls the program makes that write   *)
(* are the create calls saveItem and keep_list.add (with its sync); the    *)
(* items of the Keep list object it holds keep their label and checked     *)
(* state; and, a create call putting one item on its list, every item the  *)
(* two lists held when the run started is still there with its label and   *)
(* checked state, whatever fails, and a list grows by no more than the     *)
(* create calls made on it.                                                *)
(***************************************************************************)
Count(list, x) == Cardinality({ n \in 1..Len(list) : list[n] = x })

Keeps(before, after) ==
    \A n \in 1..Len(before) : Count(after, before[n]) >= Count(before, before[n])

IsLogin(c) == c.op \in {"keep.authenticate", "bring.login"}

C8_LoginFailureEndsRun ==
    /\ \A n \in 1..Len(io) :
        (IsLogin(io[n]) /\ ~ io[n].ok)
            => /\ n = Len(io)
               /\ pc = "aborted"
               /\ ~ keep_list.found /\ ~ bring_items.found
    /\ \A n \in 1..Len(io) :
        ~ IsLogin(io[n])
            => /\ n > 2
               /\ io[1].op = "keep.authenticate" /\ io[1].ok
               /\ io[2].op = "bring.login" /\ io[2].ok

\* the Keep login succeeded, the Bring login failed, and the two lists
\* held something to create on both of them
C8_Witness ==
    /\ pc = "aborted"
    /\ Len(io) = 2 /\ io[1].ok /\ ~ io[2].ok
    /\ sync_mode = 0 /\ hasUuid
    /\ MissingOnBringOf(start.bring) # {} /\ MissingOnKeepOf(start.bring) # {}

(***************************************************************************)
(* C9: when get_keep_list or get_bring_list fails, the run ends without a  *)
(* create call on either list and sync_lists is never entered, in every    *)
(* mode.                                                                   *)
(***************************************************************************)
IsFetch(c) == c.op \in {"get_keep_list", "get_bring_list"}

C9_FetchFailureCreatesNothing ==
    (\E n \in 1..Len(io) : IsFetch(io[n]) /\ ~ io[n].ok)
        => /\ Creates(io) = <<>>
           /\ pc \in {"get_bring", "aborted"}
           /\ summary = <<>>

\* the Keep list could not be fetched, the Bring list could, and the mode
\* is Bring->Keep with items missing on Keep
C9_Witness ==
    /\ pc = "aborted"
    /\ Len(io) = 4 /\ ~ io[3].ok /\ io[4].ok
    /\ sync_mode = 1
    /\ MissingOnKeep # {}

(***************************************************************************)
(* C10: in mode 0 the Keep->Bring pass runs first and the Bring->Keep pass *)
(* second, once each: no saveItem call follows a keep_list.add call, and   *)
(* the summaries logged are those of the two passes in that order.         *)
(***************************************************************************)
C10_PassesOnceInOrder ==
    sync_mode = 0 =>
        /\ \A a, b \in 1..Len(io) :
            (a < b /\ io[a].op = "keep_list.add") => io[b].op # "saveItem"
        /\ Len(summary) <= 2
        /\ \A n \in 1..Len(summary) :
            summary[n].pass =
                IF n = 1 /\ bring_items.listUuid THEN "Keep->Bring" ELSE "Bring->Keep"
        /\ (Len(summary) = 2 => bring_items.listUuid)

\* a run in mode 0 in which both passes created items
C10_Witness ==
    /\ sync_mode = 0
    /\ pc = "complete"
    /\ Len(summary) = 2
    /\ CallsOf("saveItem") # {}
    /\ CallsOf("keep_list.add") # {}

(***************************************************************************)
(* C11: in mode 0 the Bring->Keep pass works on the snapshots taken before *)
(* the Keep->Bring pass: it processes the items the Bring list had when    *)
(* the run started, and the labels it tries to create on Keep are, in      *)
(* order, those of the Bring items whose key the Keep list did not have    *)
(* when the run started, whatever the first pass created or failed to      *)
(* create.                                                                 *)
(***************************************************************************)
\* the labels of the items of list at the positions of set, in list order
RECURSIVE LabelsAt(_, _, _)
LabelsAt(list, set, n) ==
    IF n > Len(list) THEN <<>>
    ELSE IF n \in set THEN <<Strip(list[n])>> \o LabelsAt(list, set, n + 1)
    ELSE LabelsAt(list, set, n + 1)

LabelsOfCalls(op) ==
    LET calls == SelectSeq(io, LAMBDA c : c.op = op)
    IN  [n \in 1..Len(calls) |-> calls[n].label]

C11_SecondPassFromSnapshots ==
    (sync_mode = 0 /\ PassLogged("Bring->Keep")) =>
        /\ LabelsOfCalls("keep_list.add") = LabelsAt(BringSnapshot, MissingOnKeep, 1)
        /\ \A n \in 1..Len(summary) :
            summary[n].pass = "Bring->Keep" => summary[n].processed = Len(BringSnapshot)

\* the first pass wrote to Bring, so the Bring list differs from the
\* snapshot, and the second pass tried to create an item
C11_Witness ==
    /\ sync_mode = 0
    /\ PassLogged("Bring->Keep")
    /\ bringRemote # start.bring
    /\ CallsOf("keep_list.add") # {}

(***************************************************************************)
(* C12: the mode selects the passes.  saveItem is called only in modes 0   *)
(* and 2, keep_list.add only in modes 0 and 1; in a one-way mode nothing   *)
(* is created on the source list, and in any other mode nothing at all.    *)
(***************************************************************************)
C12_ModeSelectsPasses ==
    /\ CallsOf("saveItem") # {} => sync_mode \in {0, 2}
    /\ CallsOf("keep_list.add") # {} => sync_mode \in {0, 1}
    /\ PassLogged("Keep->Bring") => sync_mode \in {0, 2}
    /\ PassLogged("Bring->Keep") => sync_mode \in {0, 1}
    /\ sync_mode = 1 => bringRemote = start.bring
    /\ sync_mode = 2 => keepRemote = start.keep
    /\ sync_mode = 3 => (Creates(io) = <<>> /\ summary = <<>>)

\* a completed Keep->Bring run that created an item on Bring while the
\* Bring list held items missing on Keep
C12_Witness ==
    /\ sync_mode = 2
    /\ pc = "complete"
    /\ Len(bringRemote) > Len(start.bring)
    /\ MissingOnKeep # {}

(***************************************************************************)
(* Normalization on its own: a label is spelled differently (the case of   *)
(* a letter changed, a space put in front or behind, a punctuation mark    *)
(* put anywhere) and then normalized at the three places of sync_lists     *)
(* that normalize: as a Keep item, as an item of the Bring key set, and    *)
(* as an item of the Bring->Keep loop.                                     *)
(***************************************************************************)
MaxLabelLen == 2
MaxEdits == 2

NormChars == {"M", "m", "1", " ", "!"}

NormLabels == SeqsUpTo(NormChars, MaxLabelLen)

\* the label under test is the text of the one Keep item and the name of
\* the one Bring item
AsLists(s) == [keep |-> << [text |-> s, checked |-> FALSE] >>, bring |-> << s >>]

NormInit ==
    /\ \E s \in NormLabels :
        /\ start = AsLists(s)
        /\ keepRemote = AsLists(s).keep
        /\ bringRemote = AsLists(s).bring
    /\ hasUuid = TRUE
    /\ sync_mode = 0
    /\ pc = "spell"
    /\ run = "first"
    /\ prev = [complete |-> FALSE, creates |-> 0, failures |-> 0]
    /\ keep_list = NoKeepList
    /\ bring_items = NoBringItems
    /\ normalized_keep_items_dict = <<>>
    /\ normalized_bring_item_names = {}
    /\ i = 0
    /\ items_added = 0
    /\ summary = <<>>
    /\ io = <<>>

SwapCase(c) == IF c = "M" THEN "m" ELSE IF c = "m" THEN "M" ELSE c

InsertAt(s, n, c) == SubSeq(s, 1, n) \o <<c>> \o SubSeq(s, n + 1, Len(s))

Respell(s) ==
    /\ pc = "spell"
    /\ i < MaxEdits
    /\ i' = i + 1
    /\ keepRemote' = AsLists(s).keep
    /\ bringRemote' = AsLists(s).bring
    /\ UNCHANGED << hasUuid, sync_mode, pc, run, start, prev, keep_list, bring_items,
                    normalized_keep_items_dict, normalized_bring_item_names,
                    items_added, summary, io >>

ChangeCase ==
    \E n \in 1..Len(bringRemote[1]) :
        /\ bringRemote[1][n] \in {"M", "m"}
        /\ Respell([bringRemote[1] EXCEPT ![n] = SwapCase(@)])

SurroundWithSpace ==
    \/ Respell(<<Space>> \o bringRemote[1])
    \/ Respell(bringRemote[1] \o <<Space>>)

AddPunctuation ==
    \E n \in 0..Len(bringRemote[1]) : Respell(InsertAt(bringRemote[1], n, "!"))

\* lines 93-96 on the one Keep item
NormalizeKeepItems ==
    /\ pc = "spell"
    /\ normalized_keep_items_dict' = KeepDict(keepRemote)
    /\ pc' = "bring_names"
    /\ UNCHANGED << inputs, keep_list, bring_items, normalized_bring_item_names,
                    i, items_added, summary, io >>

\* lines 101-104 on the one Bring item
NormalizeBringNames ==
    /\ pc = "bring_names"
    /\ normalized_bring_item_names' = BringNames(bringRemote)
    /\ pc' = "loop"
    /\ UNCHANGED << inputs, keep_list, bring_items, normalized_keep_items_dict,
                    i, items_added, summary, io >>

\* lines 147-148 on the one Bring item; the key is kept in io
NormalizeInLoop ==
    /\ pc = "loop"
    /\ io' = << Call("normalized_spec", NormalizedSpec(bringRemote[1]), 1, TRUE) >>
    /\ pc' = "normalized"
    /\ UNCHANGED << inputs, keep_list, bring_items, locals >>

NormNext ==
    \/ ChangeCase
    \/ SurroundWithSpace
    \/ AddPunctuation
    \/ NormalizeKeepItems
    \/ NormalizeBringNames
    \/ NormalizeInLoop

NormSpec == NormInit /\ [][NormNext]_vars

(***************************************************************************)
(* C13: normalization lowercases and keeps only the alphanumeric           *)
(* characters, so a label respelled in case, surrounding whitespace or     *)
(* punctuation has the key of the original label; and the three places     *)
(* that normalize compute the same key for the same label.                 *)
(***************************************************************************)
C13_NormalizationEquivalence ==
    pc = "normalized" =>
        LET key == io[1].label
            original == start.bring[1]
        IN  /\ key = Normalize(original)
            /\ \A n \in 1..Len(key) : key[n] \in {"m", "1"}
            /\ IF bringRemote[1] = <<>>
               THEN normalized_keep_items_dict = <<>> /\ normalized_bring_item_names = {}
               ELSE /\ Len(normalized_keep_items_dict) = 1
                    /\ normalized_keep_items_dict[1].key = key
                    /\ normalized_bring_item_names = {key}

\* "M1" respelled as "m1!" and normalized at the three places to "m1"
C13_Witness ==
    /\ pc = "normalized"
    /\ start.bring[1] = <<"M", "1">>
    /\ bringRemote[1] = <<"m", "1", "!">>
    /\ io[1].label = <<"m", "1">>
    /\ normalized_bring_item_names = {<<"m", "1">>}

(***************************************************************************)
(* The program on lists that hold blank items: an empty text, a text of    *)
(* whitespace only and a text of punctuation only, beside one label with   *)
(* a key.                                                                  *)
(***************************************************************************)
Empty == << >>
Blank == << " " >>

BlankLabels == {Milk, Bang, Empty, Blank}

InitBlank ==
    /\ keepRemote \in SeqsUpTo([text : BlankLabels, checked : BOOLEAN], MaxItems)
    /\ bringRemote \in SeqsUpTo(BlankLabels, MaxItems - Len(keepRemote))
    /\ hasUuid \in BOOLEAN
    /\ sync_mode \in Modes
    /\ pc = "keep_auth"
    /\ run = "first"
    /\ start = [keep |-> keepRemote, bring |-> bringRemote]
    /\ prev = [complete |-> FALSE, creates |-> 0, failures |-> 0]
    /\ keep_list = NoKeepList
    /\ bring_items = NoBringItems
    /\ normalized_keep_items_dict = <<>>
    /\ normalized_bring_item_names = {}
    /\ i = 1
    /\ items_added = 0
    /\ summary = <<>>
    /\ io = <<>>

SpecBlank == InitBlank /\ [][Next]_vars

(***************************************************************************)
(* C14: an item whose key is empty never causes a create call, in either   *)
(* direction, and never stands for another item on the destination: every  *)
(* item with a key that the destination lacks still gets its create call   *)
(* when the destination holds blank items.                                 *)
(***************************************************************************)
C14_BlankItemsLeftOut ==
    /\ \A n \in CallsOf("saveItem") :
        /\ Normalize(io[n].label) # <<>>
        /\ Normalize(start.keep[io[n].idx].text) # <<>>
    /\ \A n \in CallsOf("keep_list.add") :
        /\ Normalize(io[n].label) # <<>>
        /\ Normalize(BringSnapshot[io[n].idx]) # <<>>
    /\ PassLogged("Keep->Bring") =>
        { io[c].idx : c \in CallsOf("saveItem") } = KeepToBringCandidates
    /\ PassLogged("Bring->Keep") =>
        { io[c].idx : c \in CallsOf("keep_list.add") } = MissingOnKeep

\* the Keep list held an unchecked blank item and the Bring list a blank
\* item; the Keep->Bring pass still created the item with a key, and the
\* run made no other create call
C14_Witness ==
    /\ pc = "complete"
    /\ sync_mode = 0
    /\ \E n \in 1..Len(start.keep) :
        ~ start.keep[n].checked /\ Normalize(start.keep[n].text) = <<>>
    /\ \E n \in 1..Len(BringSnapshot) :
        BringSnapshot[n] # <<>> /\ Normalize(BringSnapshot[n]) = <<>>
    /\ Cardinality(CallsOf("saveItem")) = 1
    /\ CallsOf("keep_list.add") = {}

(***************************************************************************)
(* C15: once both logins and both fetches have succeeded the run ends in   *)
(* its summarized state: when it is complete, each pass the mode activates *)
(* has logged its summary with its added count.                            *)
(***************************************************************************)
C15_SummaryForEveryActivePass ==
    pc = "complete" =>
        /\ sync_mode \in {0, 2} => PassLogged("Keep->Bring")
        /\ sync_mode \in {0, 1} => PassLogged("Bring->Keep")

(***************************************************************************)
(* C16: what a completed run reported is what is on the lists: the items   *)
(* the Keep list gained are those of the keep_list.add attempts reported   *)
(* as added, so no attempt reported as failed is on the Keep list, and     *)
(* the items the Bring list gained are those of the saveItem calls         *)
(* reported as added.                                                      *)
(***************************************************************************)
ReportedAdded(op) ==
    LET calls == SelectSeq(io, LAMBDA c : c.op = op /\ c.ok)
    IN  [n \in 1..Len(calls) |-> calls[n].label]

C16_ReportedOutcomeMatchesLists ==
    pc = "complete" =>
        /\ [n \in 1..(Len(keepRemote) - Len(start.keep)) |->
                keepRemote[Len(start.keep) + n].text] = ReportedAdded("keep_list.add")
        /\ SubSeq(bringRemote, Len(start.bring) + 1, Len(bringRemote)) =
                ReportedAdded("saveItem")

(***************************************************************************)
(* C17: convergence.  After a completed run in mode 0 on a Bring list that *)
(* has a list id, with no failed create call, the key of every unchecked   *)
(* Keep item that has a key is on Bring and the key of every Bring item    *)
(* that has a key is on Keep.                                              *)
(***************************************************************************)
C17_Convergence ==
    (pc = "complete" /\ sync_mode = 0 /\ bring_items.listUuid /\ Failures(io) = <<>>) =>
        /\ \A n \in 1..Len(start.keep) :
            (~ start.keep[n].checked /\ Normalize(start.keep[n].text) # <<>>)
                => Normalize(start.keep[n].text) \in KeysOfBring(bringRemote)
        /\ \A n \in 1..Len(BringSnapshot) :
            Normalize(BringSnapshot[n]) # <<>>
                => Normalize(BringSnapshot[n]) \in KeysOfKeep(keepRemote)

(***************************************************************************)
(* C18: the labels the Keep->Bring pass tries to create are the reference  *)
(* diff: the Keep items in list order that are unchecked, have a key that  *)
(* is not on Bring, and whose key was not emitted earlier in the pass, so  *)
(* that of several Keep items of one key the first unchecked one is sent.  *)
(***************************************************************************)
RECURSIVE ReferenceDiff(_, _, _, _)
ReferenceDiff(source, destKeys, n, seen) ==
    IF n > Len(source) THEN <<>>
    ELSE LET key == Normalize(source[n].text)
         IN  IF ~ source[n].checked /\ key # <<>> /\ key \notin destKeys /\ key \notin seen
             THEN <<Strip(source[n].text)>>
                      \o ReferenceDiff(source, destKeys, n + 1, seen \cup {key})
             ELSE ReferenceDiff(source, destKeys, n + 1, seen)

C18_KeepToBringIsReferenceDiff ==
    PassLogged("Keep->Bring") =>
        LabelsOfCalls("saveItem") =
            ReferenceDiff(start.keep, KeysOfBring(BringSnapshot), 1, {})

(***************************************************************************)
(* C19: no echo.  In one run no key is the subject of a create call on     *)
(* both lists.                                                             *)
(***************************************************************************)
C19_NoEcho ==
    \A a \in CallsOf("saveItem"), b \in CallsOf("keep_list.add") :
        Normalize(io[a].label) # Normalize(io[b].label)

\* a completed run in mode 0 that created items on both lists
C19_Witness ==
    /\ sync_mode = 0
    /\ pc = "complete"
    /\ \E a \in CallsOf("saveItem") : io[a].ok
    /\ \E b \in CallsOf("keep_list.add") : io[b].ok

(***************************************************************************)
(* C20: when the fetched Bring snapshot has no list id, the Keep->Bring    *)
(* pass makes no create call and logs no summary, the run is not aborted,  *)
(* and in modes 0 and 1 the Bring->Keep pass still runs over the purchase  *)
(* list of the snapshot and tries to create every Bring item whose key is  *)
(* missing on Keep.                                                        *)
(***************************************************************************)
C20_NoListIdSkipsOnlyKeepToBring ==
    (keep_list.found /\ bring_items.found /\ ~ bring_items.listUuid) =>
        /\ CallsOf("saveItem") = {}
        /\ ~ PassLogged("Keep->Bring")
        /\ bringRemote = start.bring
        /\ pc # "aborted"
        /\ (pc = "complete" /\ sync_mode \in {0, 1}) =>
            /\ bring_items.hasPurchase => PassLogged("Bring->Keep")
            /\ { io[c].idx : c \in CallsOf("keep_list.add") } = MissingOnKeep

\* a completed run in mode 0 without a list id: unchecked Keep items were
\* missing on Bring, and the Bring->Keep pass added an item to Keep
C20_Witness ==
    /\ pc = "complete"
    /\ sync_mode = 0
    /\ ~ bring_items.listUuid
    /\ MissingOnBring # {}
    /\ \E b \in CallsOf("keep_list.add") : io[b].ok
    /\ Len(keepRemote) > Len(start.keep)

====
